---- MODULE Spec2Model ----
(***************************************************************************)
(* A model of backend/app/db.py (class DatabaseManager): the SQLite store  *)
(* of meetings, the per-meeting summarisation process tracker, the         *)
(* accumulating transcript buffer and the singleton settings row.          *)
(*                                                                         *)
(* Tables are sets of rows (records).  Python / SQLite values that may be  *)
(* None / NULL are tagged records: None, Str(s), Num(n).  A timestamp      *)
(* string (datetime.utcnow().isoformat()) is represented by the clock      *)
(* reading it encodes.  A JSON text is represented by its token sequence.  *)
(***************************************************************************)
EXTENDS Integers, Sequences, FiniteSets, TLC

VARIABLES
    meetings,           \* table meetings
    transcripts,        \* table transcripts
    transcript_chunks,  \* table transcript_chunks (working buffer)
    summary_processes,  \* table summary_processes
    settings,           \* table settings
    environ,            \* os.environ, the three API key variables
    clock,              \* the reading datetime.utcnow() gives the next call
    tasks,              \* save_transcript coroutines suspended at an await
    appended,           \* history: per meeting, the texts saved, in commit order
    connections,        \* the number of SQLite connections that are open
    last                \* history: the call that completed last, and its outcome

tables == <<meetings, transcripts, transcript_chunks, summary_processes, settings>>
vars == <<meetings, transcripts, transcript_chunks, summary_processes, settings,
          environ, clock, tasks, appended, connections, last>>

-----------------------------------------------------------------------------
(* Bounds of the model *)

MaxClock == 4
MaxTasks == 2

-----------------------------------------------------------------------------
(* Python values *)

None == [t |-> "none"]
Str(s) == [t |-> "str", v |-> s]
Num(n) == [t |-> "int", v |-> n]
Dict(items) == [t |-> "dict", items |-> items]
List(items) == [t |-> "list", items |-> items]

\* Python truth value testing, as used by `if x:` and `x or y`
Truthy(x) ==
    CASE x.t = "none" -> FALSE
      [] x.t = "str"  -> Len(x.v) > 0
      [] x.t = "int"  -> x.v # 0
      [] x.t = "dict" -> Len(x.items) > 0
      [] x.t = "list" -> Len(x.items) > 0

Meetings == {"m1", "m2"}

-----------------------------------------------------------------------------
(* JSON text: json.dumps as the token sequence of the text it writes, and  *)
(* the decoder a reader of the result / metadata columns applies.          *)

Tok(k) == [k |-> k]
TokString(s) == [k |-> "string", s |-> s]
TokNumber(n) == [k |-> "number", n |-> n]

RECURSIVE json_dumps(_)
RECURSIVE DumpMembers(_)
RECURSIVE DumpElements(_)

\* the members of a dict, "key": value, separated by commas
DumpMembers(items) ==
    IF Len(items) = 0 THEN <<>>
    ELSE <<TokString(Head(items)[1]), Tok(":")>> \o json_dumps(Head(items)[2])
         \o (IF Len(items) > 1 THEN <<Tok(",")>> ELSE <<>>)
         \o DumpMembers(Tail(items))

\* the elements of a list, separated by commas
DumpElements(items) ==
    IF Len(items) = 0 THEN <<>>
    ELSE json_dumps(Head(items))
         \o (IF Len(items) > 1 THEN <<Tok(",")>> ELSE <<>>)
         \o DumpElements(Tail(items))

json_dumps(x) ==
    CASE x.t = "none" -> <<Tok("null")>>
      [] x.t = "str"  -> <<TokString(x.v)>>
      [] x.t = "int"  -> <<TokNumber(x.v)>>
      [] x.t = "dict" -> <<Tok("{")>> \o DumpMembers(x.items) \o <<Tok("}")>>
      [] x.t = "list" -> <<Tok("[")>> \o DumpElements(x.items) \o <<Tok("]")>>

ParseFail == [ok |-> FALSE]
Parsed(v, next) == [ok |-> TRUE, v |-> v, next |-> next]

RECURSIVE ParseValue(_, _)
RECURSIVE ParseMembers(_, _, _)
RECURSIVE ParseElements(_, _, _)

\* toks[i] is a key of an object whose earlier members are acc
ParseMembers(toks, i, acc) ==
    IF i + 1 > Len(toks) \/ toks[i].k # "string" \/ toks[i + 1].k # ":" THEN ParseFail
    ELSE LET r == ParseValue(toks, i + 2) IN
         IF ~r.ok \/ r.next > Len(toks) THEN ParseFail
         ELSE LET acc2 == Append(acc, <<toks[i].s, r.v>>) IN
              CASE toks[r.next].k = "}" -> Parsed(Dict(acc2), r.next + 1)
                [] toks[r.next].k = "," -> ParseMembers(toks, r.next + 1, acc2)
                [] OTHER -> ParseFail

\* toks[i] starts an element of an array whose earlier elements are acc
ParseElements(toks, i, acc) ==
    LET r == ParseValue(toks, i) IN
    IF ~r.ok \/ r.next > Len(toks) THEN ParseFail
    ELSE LET acc2 == Append(acc, r.v) IN
         CASE toks[r.next].k = "]" -> Parsed(List(acc2), r.next + 1)
           [] toks[r.next].k = "," -> ParseElements(toks, r.next + 1, acc2)
           [] OTHER -> ParseFail

ParseValue(toks, i) ==
    IF i > Len(toks) THEN ParseFail
    ELSE LET tk == toks[i] IN
         CASE tk.k = "null"   -> Parsed(None, i + 1)
           [] tk.k = "string" -> Parsed(Str(tk.s), i + 1)
           [] tk.k = "number" -> Parsed(Num(tk.n), i + 1)
           [] tk.k = "{" -> IF i + 1 <= Len(toks) /\ toks[i + 1].k = "}"
                            THEN Parsed(Dict(<<>>), i + 2)
                            ELSE ParseMembers(toks, i + 1, <<>>)
           [] tk.k = "[" -> IF i + 1 <= Len(toks) /\ toks[i + 1].k = "]"
                            THEN Parsed(List(<<>>), i + 2)
                            ELSE ParseElements(toks, i + 1, <<>>)
           [] OTHER -> ParseFail

JSONDecodeError == [t |-> "JSONDecodeError"]

\* the value a JSON text decodes to
json_loads(toks) ==
    LET r == ParseValue(toks, 1) IN
    IF r.ok /\ r.next = Len(toks) + 1 THEN r.v ELSE JSONDecodeError

\* what a reader of a result / metadata column gets: NULL reads as None
DecodeColumn(col) == IF col.t = "none" THEN None ELSE json_loads(col.v)

\* the structured payloads callers pass as result / metadata
Payloads ==
    { Dict(<<>>),
      Dict(<< <<"summary", Str("ok")>> >>),
      Dict(<< <<"items", List(<<Num(1), None>>)>>, <<"n", Num(0)>> >>) }

-----------------------------------------------------------------------------
(* Inputs *)

Statuses == {"PENDING", "COMPLETED", "FAILED", "PROCESSING"}
Terminal == {"COMPLETED", "FAILED"}
ResultArgs == {None} \cup Payloads
ErrorArgs == {None, Str(""), Str("boom")}
\* (chunk_count, processing_time, metadata) of an update_process call
MetricsArgs ==
    { <<None, None, None>>,
      <<Num(0), None, Dict(<<>>)>>,
      <<Num(2), Num(5), Dict(<< <<"lang", Str("en")>> >>)>> }

\* the calls recorded in `last`: prev_op and prev_key are the call before it
Call(op, key, status, arg, ret, now, connected) ==
    [op |-> op, key |-> key, status |-> status, arg |-> arg, ret |-> ret,
     now |-> now, connected |-> connected, prev_op |-> last.op, prev_key |-> last.key]

\* sqlite3.connect / aiosqlite.connect: one more connection is open
connect(n) == n + 1
\* conn.close(): one connection fewer is open
close(n) == n - 1
\* `async with self._get_connection() as conn`: the connection is opened and,
\* in the finally clause, closed on every way out of the block
get_connection(n) == close(connect(n))
\* `with sqlite3.connect(self.db_path) as conn`: the connection is opened; on
\* the way out of the block the transaction is committed or rolled back, and
\* the connection is not closed
with_connect(n) == connect(n)

-----------------------------------------------------------------------------
(* Process tracker: table summary_processes *)

\* INSERT INTO summary_processes (meeting_id, status, created_at, updated_at,
\* start_time): the other columns take their declared defaults
NewProcessRow(m, now) ==
    [meeting_id |-> m, status |-> "PENDING", created_at |-> Str(now),
     updated_at |-> Str(now), error |-> None, result |-> None,
     start_time |-> Str(now), end_time |-> None, chunk_count |-> Num(0),
     processing_time |-> Num(0), metadata |-> None]

ProcessRows(T, m) == {r \in T : r.meeting_id = m}

\* create_process with a fault: INSERT OR REPLACE in place of UPDATE-then-INSERT
create_process_replaces(T, m, now) ==
    {r \in T : r.meeting_id # m} \cup {NewProcessRow(m, now)}

\* create_process with a fault: the UPDATE forgets to clear error and result
create_process_keeps_outcome(T, m, now) ==
    LET updated == {IF r.meeting_id = m
                    THEN [r EXCEPT !.status = "PENDING", !.updated_at = Str(now),
                                   !.start_time = Str(now)]
                    ELSE r : r \in T}
        total_changes == Cardinality(ProcessRows(T, m))
    IN IF total_changes = 0 THEN updated \cup {NewProcessRow(m, now)} ELSE updated

\* the table after create_process(m) at time now
create_process(T, m, now) ==
    LET updated == {IF r.meeting_id = m
                    THEN [r EXCEPT !.status = "PENDING", !.updated_at = Str(now),
                                   !.start_time = Str(now), !.error = None,
                                   !.result = None]
                    ELSE r : r \in T}
        total_changes == Cardinality(ProcessRows(T, m))
    IN IF total_changes = 0 THEN updated \cup {NewProcessRow(m, now)} ELSE updated

\* update_process with a fault: a meeting without a row gets one inserted
update_process_upserts(T, m, now, status, result, error, chunk_count, processing_time, metadata) ==
    IF ProcessRows(T, m) = {}
    THEN T \cup {[NewProcessRow(m, now) EXCEPT !.status = status]}
    ELSE {IF r.meeting_id = m
          THEN [r EXCEPT !.status = status, !.updated_at = Str(now)]
          ELSE r : r \in T}

\* update_process with a fault: error is written whenever it is not None
update_process_stores_empty_error(T, m, now, status, result, error, chunk_count, processing_time, metadata) ==
    {IF r.meeting_id = m
     THEN [r EXCEPT
             !.status = status,
             !.updated_at = Str(now),
             !.result = IF Truthy(result) THEN Str(json_dumps(result)) ELSE @,
             !.error = IF error # None THEN error ELSE @,
             !.chunk_count = IF chunk_count # None THEN chunk_count ELSE @,
             !.processing_time = IF processing_time # None THEN processing_time ELSE @,
             !.metadata = IF Truthy(metadata) THEN Str(json_dumps(metadata)) ELSE @,
             !.end_time = IF status = "COMPLETED" \/ status = "FAILED" THEN Str(now) ELSE @]
     ELSE r : r \in T}

\* the table after update_process(m, status, ...) at time now
update_process(T, m, now, status, result, error, chunk_count, processing_time, metadata) ==
    {IF r.meeting_id = m
     THEN [r EXCEPT
             !.status = status,
             !.updated_at = Str(now),
             !.result = IF Truthy(result) THEN Str(json_dumps(result)) ELSE @,
             !.error = IF Truthy(error) THEN error ELSE @,
             !.chunk_count = IF chunk_count # None THEN chunk_count ELSE @,
             !.processing_time = IF processing_time # None THEN processing_time ELSE @,
             !.metadata = IF Truthy(metadata) THEN Str(json_dumps(metadata)) ELSE @,
             !.end_time = IF status = "COMPLETED" \/ status = "FAILED" THEN Str(now) ELSE @]
     ELSE r : r \in T}

CreateProcess(m) ==
    /\ clock < MaxClock
    /\ summary_processes' = create_process(summary_processes, m, clock)
    /\ clock' = clock + 1
    /\ last' = Call("create_process", m, "", None, Str(m), clock, TRUE)
    /\ UNCHANGED <<meetings, transcripts, transcript_chunks, settings, environ,
                   tasks, appended>>
    /\ connections' = get_connection(connections)

UpdateProcess(m, status, result, error, chunk_count, processing_time, metadata) ==
    /\ clock < MaxClock
    /\ summary_processes' = update_process(summary_processes, m, clock, status, result,
                                           error, chunk_count, processing_time, metadata)
    /\ clock' = clock + 1
    /\ last' = Call("update_process", m, status, result, None, clock, TRUE)
    /\ UNCHANGED <<meetings, transcripts, transcript_chunks, settings, environ,
                   tasks, appended>>
    /\ connections' = get_connection(connections)

-----------------------------------------------------------------------------
(* Settings and API keys: table settings *)

provider_list == {"openai", "claude", "groq", "ollama"}
Providers == provider_list \cup {"azure"}
ApiKeys == {Str(""), Str("sk-1"), Str("sk-2")}
ModelConfigs ==
    { <<"openai", "gpt-4o", "whisper-1">>, <<"ollama", "llama3", "large-v3">> }
EnvVars == {"OPENAI_API_KEY", "ANTHROPIC_API_KEY", "GROQ_API_KEY"}
\* the environments the store is run under: a variable is unset, empty or set
Environs ==
    { [v \in EnvVars |-> None],
      [v \in EnvVars |-> Str("sk-env")],
      [OPENAI_API_KEY |-> Str("sk-1"), ANTHROPIC_API_KEY |-> Str(""),
       GROQ_API_KEY |-> None],
      [OPENAI_API_KEY |-> None, ANTHROPIC_API_KEY |-> Str("sk-env"),
       GROQ_API_KEY |-> Str("sk-2")] }

ValueError == [t |-> "ValueError"]

\* INSERT INTO settings (id, provider, model, whisperModel): the key columns are NULL
SettingsRow(id, provider, model, whisperModel) ==
    [id |-> id, provider |-> provider, model |-> model, whisperModel |-> whisperModel,
     groqApiKey |-> None, openaiApiKey |-> None, anthropicApiKey |-> None,
     ollamaApiKey |-> None]

\* _init_db with a fault: INSERT OR REPLACE in place of INSERT OR IGNORE
init_db_replaces(T) ==
    {r \in T : r.id # "1"} \cup {SettingsRow("1", "openai", "gpt-4o-mini", "whisper-1")}

\* the settings table after _init_db: INSERT OR IGNORE of the default row
init_db(T) ==
    IF \E r \in T : r.id = "1"
    THEN T
    ELSE T \cup {SettingsRow("1", "openai", "gpt-4o-mini", "whisper-1")}

\* save_model_config with a fault: INSERT OR REPLACE of the whole row
save_model_config_replaces(T, provider, model, whisperModel) ==
    {r \in T : r.id # "1"} \cup {SettingsRow("1", provider, model, whisperModel)}

\* the settings table after save_model_config
save_model_config(T, provider, model, whisperModel) ==
    IF T # {}
    THEN {IF r.id = "1"
          THEN [r EXCEPT !.provider = provider, !.model = model,
                         !.whisperModel = whisperModel]
          ELSE r : r \in T}
    ELSE T \cup {SettingsRow("1", provider, model, whisperModel)}

\* what get_model_config returns: SELECT provider, model, whisperModel FROM
\* settings WHERE id = '1', as a dict, or None when there is no such row
get_model_config(T) ==
    LET rows == {r \in T : r.id = "1"} IN
    IF rows = {} THEN None
    ELSE LET row == CHOOSE r \in rows : TRUE IN
         [t |-> "config", provider |-> row.provider, model |-> row.model,
          whisperModel |-> row.whisperModel]

\* the column a provider's key lives in
api_key_name(provider) ==
    CASE provider = "openai" -> "openaiApiKey"
      [] provider = "claude" -> "anthropicApiKey"
      [] provider = "groq"   -> "groqApiKey"
      [] provider = "ollama" -> "ollamaApiKey"

\* UPDATE settings SET <column> = value WHERE id = '1'
set_key(T, column, value) ==
    {IF r.id = "1" THEN [r EXCEPT ![column] = value] ELSE r : r \in T}

\* delete_api_key with a fault: it clears the keys of all providers
delete_api_key_clears_all(T, provider) ==
    {IF r.id = "1"
     THEN [r EXCEPT !.openaiApiKey = None, !.anthropicApiKey = None,
                    !.groqApiKey = None, !.ollamaApiKey = None]
     ELSE r : r \in T}

\* delete_api_key with a fault: it deletes the settings row
delete_api_key_deletes_row(T, provider) == {r \in T : r.id # "1"}

\* save_api_key with a fault: the claude branch names the openai column
save_api_key_wrong_column(T, api_key, provider) ==
    set_key(T, IF provider = "claude" THEN "openaiApiKey" ELSE api_key_name(provider),
            api_key)

\* the settings table after save_api_key / delete_api_key with an allowed provider
save_api_key(T, api_key, provider) == set_key(T, api_key_name(provider), api_key)
delete_api_key(T, provider) == set_key(T, api_key_name(provider), None)

\* what get_api_key returns for an allowed provider
get_api_key(T, provider) ==
    LET rows == {r \in T : r.id = "1"} IN
    IF rows = {} THEN None
    ELSE LET row0 == (CHOOSE r \in rows : TRUE)[api_key_name(provider)] IN
         IF Truthy(row0) THEN row0 ELSE None

\* sync_one with a fault: an unset variable clears the stored key
sync_one_clears_absent(T, column, env) ==
    {IF r.id = "1" THEN [r EXCEPT ![column] = IF Truthy(env) THEN env ELSE None] ELSE r
       : r \in T}

\* UPDATE settings SET <column> = env WHERE id = '1' AND (<column> IS NULL OR
\* <column> != env), run only when the environment variable is set and non-empty
sync_one(T, column, env) ==
    IF Truthy(env)
    THEN {IF r.id = "1" /\ (r[column] = None \/ r[column] # env)
          THEN [r EXCEPT ![column] = env] ELSE r : r \in T}
    ELSE T

\* the settings table after sync_env_vars_to_db
sync_env_vars_to_db(T, env) ==
    sync_one(sync_one(sync_one(T, "openaiApiKey", env["OPENAI_API_KEY"]),
                      "anthropicApiKey", env["ANTHROPIC_API_KEY"]),
             "groqApiKey", env["GROQ_API_KEY"])

Tick(op, key, arg, ret, connected) ==
    /\ clock < MaxClock
    /\ clock' = clock + 1
    /\ last' = Call(op, key, "", arg, ret, clock, connected)

InitDb ==
    /\ settings' = init_db(settings)
    /\ Tick("_init_db", "", None, None, TRUE)
    /\ UNCHANGED <<meetings, transcripts, transcript_chunks, summary_processes,
                   environ, tasks, appended>>
    /\ connections' = with_connect(connections)

SyncEnvVarsToDb ==
    /\ settings' = sync_env_vars_to_db(settings, environ)
    /\ Tick("sync_env_vars_to_db", "", None, None, TRUE)
    /\ UNCHANGED <<meetings, transcripts, transcript_chunks, summary_processes,
                   environ, tasks, appended>>
    /\ connections' = get_connection(connections)

SaveModelConfig(provider, model, whisperModel) ==
    /\ settings' = save_model_config(settings, provider, model, whisperModel)
    /\ Tick("save_model_config", provider, Str(model), None, TRUE)
    /\ UNCHANGED <<meetings, transcripts, transcript_chunks, summary_processes,
                   environ, tasks, appended>>
    /\ connections' = get_connection(connections)

GetModelConfig ==
    /\ Tick("get_model_config", "", None, get_model_config(settings), TRUE)
    /\ UNCHANGED <<tables, environ, tasks, appended>>
    /\ connections' = get_connection(connections)

\* SaveApiKey with a fault: no validation, the last branch takes every other provider
SaveApiKey_unvalidated(api_key, provider) ==
    /\ settings' = set_key(settings,
                           IF provider \in provider_list THEN api_key_name(provider)
                           ELSE "ollamaApiKey", api_key)
    /\ Tick("save_api_key", provider, api_key, None, TRUE)
    /\ UNCHANGED <<meetings, transcripts, transcript_chunks, summary_processes,
                   environ, tasks, appended>>
    /\ connections' = get_connection(connections)

SaveApiKey(api_key, provider) ==
    /\ IF provider \notin provider_list
       THEN /\ Tick("save_api_key", provider, api_key, ValueError, FALSE)
            /\ UNCHANGED settings
       ELSE /\ settings' = save_api_key(settings, api_key, provider)
            /\ Tick("save_api_key", provider, api_key, None, TRUE)
    /\ UNCHANGED <<meetings, transcripts, transcript_chunks, summary_processes,
                   environ, tasks, appended>>
    /\ connections' = IF provider \notin provider_list THEN connections
                    ELSE get_connection(connections)

GetApiKey(provider) ==
    /\ IF provider \notin provider_list
       THEN Tick("get_api_key", provider, None, ValueError, FALSE)
       ELSE Tick("get_api_key", provider, None, get_api_key(settings, provider), TRUE)
    /\ UNCHANGED <<tables, environ, tasks, appended>>
    /\ connections' = IF provider \notin provider_list THEN connections
                    ELSE get_connection(connections)

DeleteApiKey(provider) ==
    /\ IF provider \notin provider_list
       THEN /\ Tick("delete_api_key", provider, None, ValueError, FALSE)
            /\ UNCHANGED settings
       ELSE /\ settings' = delete_api_key(settings, provider)
            /\ Tick("delete_api_key", provider, None, None, TRUE)
    /\ UNCHANGED <<meetings, transcripts, transcript_chunks, summary_processes,
                   environ, tasks, appended>>
    /\ connections' = IF provider \notin provider_list THEN connections
                    ELSE get_connection(connections)

-----------------------------------------------------------------------------
(* Transcript accumulation: table transcript_chunks *)

Texts == {"", "a", "b"}
\* (model, model_name, chunk_size, overlap) of a save_transcript call
Configs == { <<"openai", "gpt-4o", 1000, 100>>, <<"ollama", "llama3", 500, 50>> }

\* existing_text of save_transcript: the stored text, or "" when there is no
\* row or the stored text is empty or NULL
existing_text(T, m) ==
    LET rows == {r \in T : r.meeting_id = m} IN
    IF rows = {} THEN ""
    ELSE LET row0 == (CHOOSE r \in rows : TRUE).transcript_text IN
         IF Truthy(row0) THEN row0.v ELSE ""

\* accumulate with a fault: it joins the two texts with a space
accumulate_with_space(existing, transcript_text) ==
    IF Len(existing) > 0 /\ Len(transcript_text) > 0
    THEN existing \o " " \o transcript_text
    ELSE IF Len(transcript_text) > 0 THEN transcript_text ELSE existing

\* accumulated_transcript_text of save_transcript
accumulate(existing, transcript_text) ==
    IF Len(existing) > 0 /\ Len(transcript_text) > 0
    THEN existing \o transcript_text
    ELSE IF Len(transcript_text) > 0 THEN transcript_text ELSE existing

\* INSERT OR REPLACE INTO transcript_chunks (meeting_id, transcript_text, model,
\* model_name, chunk_size, overlap, created_at): a row of the same meeting_id is
\* deleted, and the new row's meeting_name is NULL
replace_chunk(T, m, text, cfg, now) ==
    {r \in T : r.meeting_id # m}
    \cup {[meeting_id |-> m, meeting_name |-> None, transcript_text |-> Str(text),
           model |-> Str(cfg[1]), model_name |-> Str(cfg[2]), chunk_size |-> Num(cfg[3]),
           overlap |-> Num(cfg[4]), created_at |-> Str(now)]}

\* the table after a save_transcript call that runs without interleaving
save_transcript(T, m, text, cfg, now) ==
    replace_chunk(T, m, accumulate(existing_text(T, m), text), cfg, now)

Idle == [pc |-> "idle"]
TaskIds == 1..MaxTasks
NoTasks == \A t \in TaskIds : tasks[t] = Idle

\* save_transcript called while no other call is in progress
SaveTranscript(m, text, cfg) ==
    /\ NoTasks
    /\ clock < MaxClock
    /\ transcript_chunks' = save_transcript(transcript_chunks, m, text, cfg, clock)
    /\ appended' = [appended EXCEPT ![m] = Append(@, text)]
    /\ clock' = clock + 1
    /\ last' = Call("save_transcript", m, "", Str(text), None, clock, TRUE)
    /\ UNCHANGED <<meetings, transcripts, summary_processes, settings, environ, tasks>>
    /\ connections' = get_connection(connections)

\* a save_transcript coroutine runs up to the end of its SELECT and is suspended
SaveTranscriptRead(t, m, text, cfg) ==
    /\ tasks[t] = Idle
    /\ clock < MaxClock
    /\ tasks' = [tasks EXCEPT ![t] =
                    [pc |-> "read", meeting_id |-> m, transcript_text |-> text, cfg |-> cfg,
                     now |-> clock, existing_text |-> existing_text(transcript_chunks, m)]]
    /\ clock' = clock + 1
    /\ UNCHANGED <<tables, environ, appended, last>>
    /\ connections' = connect(connections)

\* the suspended coroutine resumes: INSERT OR REPLACE and commit
SaveTranscriptWrite(t) ==
    /\ tasks[t] # Idle
    /\ LET c == tasks[t] IN
       /\ transcript_chunks' =
             replace_chunk(transcript_chunks, c.meeting_id,
                           accumulate(c.existing_text, c.transcript_text), c.cfg, c.now)
       /\ appended' = [appended EXCEPT ![c.meeting_id] = Append(@, c.transcript_text)]
       /\ last' = Call("save_transcript", c.meeting_id, "", Str(c.transcript_text), None,
                       c.now, TRUE)
    /\ tasks' = [tasks EXCEPT ![t] = Idle]
    /\ UNCHANGED <<meetings, transcripts, summary_processes, settings, environ, clock>>
    /\ connections' = close(connections)

\* get_transcript_data with a fault: a LEFT JOIN, so a buffer row alone is returned
get_transcript_data_left_join(chunks, processes, m) ==
    LET rows == {c \in chunks : c.meeting_id = m} IN
    IF rows = {} THEN None
    ELSE LET c == CHOOSE r \in rows : TRUE
             ps == {q \in processes : q.meeting_id = m} IN
         IF ps = {}
         THEN [t |-> "row", chunk |-> c, status |-> None, result |-> None]
         ELSE [t |-> "row", chunk |-> c, status |-> Str((CHOOSE q \in ps : TRUE).status),
               result |-> (CHOOSE q \in ps : TRUE).result]

\* what get_transcript_data returns: the inner join of the buffer row and the
\* process row of the meeting, or None
get_transcript_data(chunks, processes, m) ==
    LET joined == {<<c, p>> \in chunks \X processes :
                      c.meeting_id = m /\ c.meeting_id = p.meeting_id} IN
    IF joined = {} THEN None
    ELSE LET row == CHOOSE j \in joined : TRUE IN
         [t |-> "row", chunk |-> row[1], status |-> row[2].status, result |-> row[2].result]

GetTranscriptData(m) ==
    /\ Tick("get_transcript_data", m, None,
            get_transcript_data(transcript_chunks, summary_processes, m), TRUE)
    /\ UNCHANGED <<tables, environ, tasks, appended>>
    /\ connections' = get_connection(connections)

-----------------------------------------------------------------------------
(* Meeting registry: tables meetings and transcripts *)

Titles == {"Standup", "Retro"}
True == [t |-> "bool", v |-> TRUE]
False == [t |-> "bool", v |-> FALSE]
\* raise Exception(f"Meeting with ID {meeting_id} already exists")
ConflictError == [t |-> "Exception"]
\* an error of the storage engine, raised to the caller
OperationalError == [t |-> "OperationalError"]

\* INSERT INTO meetings (id, title, created_at, updated_at)
MeetingRow(id, title, now) ==
    [id |-> id, title |-> title, created_at |-> Str(now), updated_at |-> Str(now)]

\* save_meeting with a fault: the SELECT looks for the id only
save_meeting_checks_id_only(T, id, title, now) ==
    IF {r \in T : r.id = id} = {}
    THEN [ret |-> True, meetings |-> T \cup {MeetingRow(id, title, now)}]
    ELSE [ret |-> ConflictError, meetings |-> T]

\* save_meeting: what it returns or raises, and the meetings table after it
save_meeting(T, id, title, now) ==
    LET existing_meeting == {r \in T : r.id = id \/ r.title = title} IN
    IF existing_meeting = {}
    THEN [ret |-> True, meetings |-> T \cup {MeetingRow(id, title, now)}]
    ELSE [ret |-> ConflictError, meetings |-> T]

\* update_meeting_title with a fault: the UPDATE has no WHERE clause
update_meeting_title_everywhere(T, m, new_title, now) ==
    {[r EXCEPT !.title = new_title, !.updated_at = Str(now)] : r \in T}

\* UPDATE meetings SET title = ?, updated_at = ? WHERE id = ?
update_meeting_title(T, m, new_title, now) ==
    {IF r.id = m THEN [r EXCEPT !.title = new_title, !.updated_at = Str(now)] ELSE r
       : r \in T}

\* UPDATE transcript_chunks SET meeting_name = ? WHERE meeting_id = ?
update_chunk_name(T, m, meeting_name) ==
    {IF r.meeting_id = m THEN [r EXCEPT !.meeting_name = Str(meeting_name)] ELSE r
       : r \in T}

\* INSERT INTO transcripts (meeting_id, transcript, timestamp, summary,
\* action_items, key_points): the id column is not given and stays NULL
TranscriptRow(rowid, m, transcript, timestamp) ==
    [rowid |-> rowid, id |-> None, meeting_id |-> m, transcript |-> Str(transcript),
     timestamp |-> Str(timestamp), summary |-> Str(""), action_items |-> Str(""),
     key_points |-> Str("")]

\* what get_meeting returns: the meeting with its transcripts, or None
get_meeting(M, T, m) ==
    LET rows == {r \in M : r.id = m} IN
    IF rows = {} THEN None
    ELSE LET meeting == CHOOSE r \in rows : TRUE IN
         [t |-> "meeting", id |-> meeting.id, title |-> meeting.title,
          created_at |-> meeting.created_at, updated_at |-> meeting.updated_at,
          transcripts |-> {[id |-> m, text |-> r.transcript, timestamp |-> r.timestamp,
                            rowid |-> r.rowid] : r \in {x \in T : x.meeting_id = m}}]

\* the four tables delete_meeting writes
Db == [meetings |-> meetings, transcripts |-> transcripts,
       transcript_chunks |-> transcript_chunks, summary_processes |-> summary_processes]

\* the tables as the connection of delete_meeting sees them after the first k
\* of its four DELETE statements
delete_steps(db, m, k) ==
    [transcript_chunks |-> IF k >= 1 THEN {r \in db.transcript_chunks : r.meeting_id # m}
                           ELSE db.transcript_chunks,
     summary_processes |-> IF k >= 2 THEN {r \in db.summary_processes : r.meeting_id # m}
                           ELSE db.summary_processes,
     transcripts |-> IF k >= 3 THEN {r \in db.transcripts : r.meeting_id # m}
                     ELSE db.transcripts,
     meetings |-> IF k >= 4 THEN {r \in db.meetings : r.id # m} ELSE db.meetings]

\* where the storage engine fails during delete_meeting: nowhere, when the
\* connection is opened, in the k-th DELETE, or in the commit
Failures == {"none", "connect", "delete1", "delete2", "delete3", "delete4", "commit"}
DeletesBefore(fail) ==
    CASE fail = "delete1" -> 0
      [] fail = "delete2" -> 1
      [] fail = "delete3" -> 2
      [] fail = "delete4" -> 3
      [] fail = "commit"  -> 4

\* delete_meeting: what it returns or raises, and the tables after it.  The
\* DELETEs run in one transaction; when one of them or the commit fails the
\* connection is closed without a commit, which rolls them back.  The
\* connection is opened outside the try block.
delete_meeting(db, m, fail) ==
    CASE fail = "none"    -> [ret |-> True, db |-> delete_steps(db, m, 4)]
      [] fail = "connect" -> [ret |-> OperationalError, db |-> db]
      [] OTHER            -> [ret |-> False, db |-> db]

SaveMeeting(id, title) ==
    /\ LET r == save_meeting(meetings, id, title, clock) IN
       /\ meetings' = r.meetings
       /\ Tick("save_meeting", id, Str(title), r.ret, TRUE)
    /\ UNCHANGED <<transcripts, transcript_chunks, summary_processes, settings,
                   environ, tasks, appended>>
    /\ connections' = with_connect(connections)

SaveMeetingTranscript(m, transcript) ==
    /\ transcripts' = transcripts \cup {TranscriptRow(clock, m, transcript, clock)}
    /\ Tick("save_meeting_transcript", m, Str(transcript), True, TRUE)
    /\ UNCHANGED <<meetings, transcript_chunks, summary_processes, settings,
                   environ, tasks, appended>>
    /\ connections' = with_connect(connections)

UpdateMeetingTitle(m, new_title) ==
    /\ meetings' = update_meeting_title(meetings, m, new_title, clock)
    /\ Tick("update_meeting_title", m, Str(new_title), None, TRUE)
    /\ UNCHANGED <<transcripts, transcript_chunks, summary_processes, settings,
                   environ, tasks, appended>>
    /\ connections' = get_connection(connections)

UpdateMeetingName(m, meeting_name) ==
    /\ meetings' = update_meeting_title(meetings, m, meeting_name, clock)
    /\ transcript_chunks' = update_chunk_name(transcript_chunks, m, meeting_name)
    /\ Tick("update_meeting_name", m, Str(meeting_name), None, TRUE)
    /\ UNCHANGED <<transcripts, summary_processes, settings, environ, tasks, appended>>
    /\ connections' = get_connection(connections)

DeleteMeeting(m, fail) ==
    /\ LET r == delete_meeting(Db, m, fail) IN
       /\ meetings' = r.db.meetings
       /\ transcripts' = r.db.transcripts
       /\ transcript_chunks' = r.db.transcript_chunks
       /\ summary_processes' = r.db.summary_processes
       /\ Tick("delete_meeting", m, Str(fail), r.ret, fail # "connect")
    /\ UNCHANGED <<settings, environ, tasks, appended>>
    /\ connections' = IF fail = "connect" THEN connections
                    ELSE get_connection(connections)

\* the Python runtime reclaims a connection object that no call refers to any
\* more, which closes it
GarbageCollect ==
    /\ connections > Cardinality({t \in TaskIds : tasks[t] # Idle})
    /\ connections' = close(connections)
    /\ UNCHANGED <<tables, environ, clock, tasks, appended, last>>

GetMeeting(m) ==
    /\ Tick("get_meeting", m, None, get_meeting(meetings, transcripts, m), TRUE)
    /\ UNCHANGED <<tables, environ, tasks, appended>>
    /\ connections' = get_connection(connections)

-----------------------------------------------------------------------------
(* Specifications *)

\* the store after DatabaseManager() on a fresh database file
InitStore ==
    /\ meetings = {}
    /\ transcripts = {}
    /\ transcript_chunks = {}
    /\ summary_processes = {}
    /\ settings = init_db({})
    /\ clock = 0
    /\ tasks = [t \in TaskIds |-> Idle]
    /\ appended = [m \in Meetings |-> <<>>]
    /\ connections = 0
    /\ last = [op |-> "__init__", key |-> "", status |-> "", arg |-> None, ret |-> None,
               now |-> 0, connected |-> TRUE, prev_op |-> "", prev_key |-> ""]

Init ==
    /\ InitStore
    /\ environ = [v \in EnvVars |-> None]

\* the process tracker, called sequentially
NextProcess ==
    \/ \E m \in Meetings : CreateProcess(m)
    \/ \E m \in Meetings, status \in Statuses, result \in ResultArgs, error \in ErrorArgs,
          metrics \in MetricsArgs :
          UpdateProcess(m, status, result, error, metrics[1], metrics[2], metrics[3])

SpecProcess == Init /\ [][NextProcess]_vars

\* the transcript buffer and the process tracker, called sequentially
NextTranscript ==
    \/ \E m \in Meetings, text \in Texts, cfg \in Configs : SaveTranscript(m, text, cfg)
    \/ \E m \in Meetings : CreateProcess(m)
    \/ \E m \in Meetings, status \in Statuses, result \in ResultArgs :
          UpdateProcess(m, status, result, None, None, None, None)
    \/ \E m \in Meetings : GetTranscriptData(m)

SpecTranscript == Init /\ [][NextTranscript]_vars

\* save_transcript coroutines running concurrently on one event loop
NextConcurrent ==
    \/ \E t \in TaskIds, m \in Meetings, text \in Texts, cfg \in Configs :
          SaveTranscriptRead(t, m, text, cfg)
    \/ \E t \in TaskIds : SaveTranscriptWrite(t)

SpecConcurrent == Init /\ [][NextConcurrent]_vars

\* the settings row, under any environment
InitSettings ==
    /\ InitStore
    /\ environ \in Environs

NextSettings ==
    \/ InitDb
    \/ SyncEnvVarsToDb
    \/ \E cfg \in ModelConfigs : SaveModelConfig(cfg[1], cfg[2], cfg[3])
    \/ GetModelConfig
    \/ \E api_key \in ApiKeys, provider \in Providers : SaveApiKey(api_key, provider)
    \/ \E provider \in Providers : GetApiKey(provider)
    \/ \E provider \in Providers : DeleteApiKey(provider)

SpecSettings == InitSettings /\ [][NextSettings]_vars

\* the meeting registry with the buffer and the process tracker, called
\* sequentially; delete_meeting may meet a failure of the storage engine
NextMeetings ==
    \/ \E m \in Meetings, title \in Titles : SaveMeeting(m, title)
    \/ \E m \in Meetings : SaveMeetingTranscript(m, "a")
    \/ \E m \in Meetings, title \in Titles : UpdateMeetingTitle(m, title)
    \/ \E m \in Meetings, title \in Titles : UpdateMeetingName(m, title)
    \/ \E m \in Meetings, fail \in Failures : DeleteMeeting(m, fail)
    \/ \E m \in Meetings : GetMeeting(m)
    \/ \E m \in Meetings, text \in Texts \ {""} :
          SaveTranscript(m, text, <<"openai", "gpt-4o", 1000, 100>>)
    \/ \E m \in Meetings : CreateProcess(m)

SpecMeetings == Init /\ [][NextMeetings]_vars

\* calls that open a connection in each of the two ways, successful and
\* failing, and the runtime reclaiming connections in between
NextConnections ==
    \/ \E m \in Meetings, title \in Titles : SaveMeeting(m, title)
    \/ \E m \in Meetings : SaveMeetingTranscript(m, "a")
    \/ \E m \in Meetings, fail \in Failures : DeleteMeeting(m, fail)
    \/ \E m \in Meetings : GetMeeting(m)
    \/ \E m \in Meetings : CreateProcess(m)
    \/ InitDb
    \/ GarbageCollect

SpecConnections == Init /\ [][NextConnections]_vars

\* the per-meeting operations on two meetings, called in any order, with
\* save_transcript coroutines suspended at their await while other calls run
NextIsolation ==
    \/ \E m \in Meetings, title \in Titles : SaveMeeting(m, title)
    \/ \E m \in Meetings : SaveMeetingTranscript(m, "a")
    \/ \E m \in Meetings : CreateProcess(m)
    \/ \E m \in Meetings :
          UpdateProcess(m, "COMPLETED", Dict(<< <<"summary", Str("ok")>> >>), None,
                        None, None, None)
    \/ \E t \in TaskIds, m \in Meetings :
          \* a new coroutine takes the first free slot
          /\ \A u \in TaskIds : u < t => tasks[u] # Idle
          /\ SaveTranscriptRead(t, m, "a", <<"openai", "gpt-4o", 1000, 100>>)
    \/ \E t \in TaskIds : SaveTranscriptWrite(t)
    \/ \E m \in Meetings, title \in Titles : UpdateMeetingTitle(m, title)
    \/ \E m \in Meetings, title \in Titles : UpdateMeetingName(m, title)
    \/ \E m \in Meetings : DeleteMeeting(m, "none")

SpecIsolation == Init /\ [][NextIsolation]_vars

-----------------------------------------------------------------------------
(* Properties of the process tracker, under SpecProcess *)

\* a call of op has just returned
Called(op) == last'.op = op /\ last'.now = clock /\ clock' = clock + 1

\* C1: after create_process(M), whatever the row of M was before, exactly one
\* summary_processes row exists for M and it has status PENDING, error NULL
\* and result NULL; and no meeting ever has two rows.
C1_SingleProcess ==
    /\ \A m \in Meetings : Cardinality(ProcessRows(summary_processes, m)) <= 1
    /\ last.op = "create_process" =>
          /\ Cardinality(ProcessRows(summary_processes, last.key)) = 1
          /\ \A r \in ProcessRows(summary_processes, last.key) :
                r.status = "PENDING" /\ r.error = None /\ r.result = None

\* a restart: create_process(M) straight after an update_process(M, ...) that
\* had left a terminal status on M's row
C1_Witness ==
    /\ last.op = "create_process"
    /\ last.prev_op = "update_process"
    /\ last.prev_key = last.key
    /\ \E r \in ProcessRows(summary_processes, last.key) :
          r.end_time # None /\ r.created_at # r.updated_at

\* C2: the row's end_time is non-NULL iff its status is COMPLETED or FAILED,
\* and an update_process call that sets a terminal status leaves end_time equal
\* to the updated_at it wrote.
C2_EndTimeIffTerminal ==
    /\ \A r \in summary_processes : (r.end_time # None) <=> (r.status \in Terminal)
    /\ (last.op = "update_process" /\ last.status \in Terminal) =>
          \A r \in ProcessRows(summary_processes, last.key) :
             r.end_time = Str(last.now) /\ r.end_time = r.updated_at

\* C10: update_process(M, "COMPLETED", result = r) straight after
\* create_process(M) leaves status COMPLETED, end_time set and a stored result
\* that decodes to r.
C10_ResultRoundTrip ==
    (/\ last.op = "update_process"
     /\ last.status = "COMPLETED"
     /\ last.arg # None
     /\ last.prev_op = "create_process"
     /\ last.prev_key = last.key) =>
        /\ ProcessRows(summary_processes, last.key) # {}
        /\ \A r \in ProcessRows(summary_processes, last.key) :
              /\ r.status = "COMPLETED"
              /\ r.end_time # None
              /\ DecodeColumn(r.result) = last.arg

\* the one summary_processes row of meeting m in table T
ProcessRow(T, m) == CHOOSE r \in T : r.meeting_id = m

\* C13: (SpecProcess) update_process is a partial update.  Applied to any
\* reachable table, for any arguments, it sets status and updated_at, sets each
\* of result, error, chunk_count, processing_time and metadata to the supplied
\* argument exactly when that argument is supplied (is not None), and leaves
\* the unsupplied ones, created_at and start_time at their previous values.
C13_PartialUpdate ==
    \A m \in Meetings, status \in Statuses, result \in ResultArgs, error \in ErrorArgs,
       metrics \in MetricsArgs :
       ProcessRows(summary_processes, m) # {} =>
         LET chunk_count == metrics[1]
             processing_time == metrics[2]
             metadata == metrics[3]
             old == ProcessRow(summary_processes, m)
             new == ProcessRow(update_process(summary_processes, m, clock, status, result,
                                              error, chunk_count, processing_time,
                                              metadata), m)
         IN /\ new.status = status
            /\ new.updated_at = Str(clock)
            /\ new.result = IF result # None THEN Str(json_dumps(result)) ELSE old.result
            /\ new.error = IF error # None THEN error ELSE old.error
            /\ new.chunk_count = IF chunk_count # None THEN chunk_count ELSE old.chunk_count
            /\ new.processing_time =
                 IF processing_time # None THEN processing_time ELSE old.processing_time
            /\ new.metadata =
                 IF metadata # None THEN Str(json_dumps(metadata)) ELSE old.metadata
            /\ new.created_at = old.created_at
            /\ new.start_time = old.start_time

\* C14: (SpecProcess) update_process for a meeting that has no row returns
\* normally (None), creates no row and leaves every table unchanged.
C14_UpdateWithoutRow ==
    [][(Called("update_process") /\ ProcessRows(summary_processes, last'.key) = {}) =>
         /\ last'.ret = None
         /\ summary_processes' = summary_processes
         /\ UNCHANGED tables]_vars

\* update_process was called for a meeting without a row while the other
\* meeting has one
C14_Witness ==
    /\ last.op = "update_process"
    /\ last.status = "COMPLETED"
    /\ ProcessRows(summary_processes, last.key) = {}
    /\ summary_processes # {}

\* C15 as stated: (SpecProcess) in every reachable state the error field of a
\* row is non-null only if the status of the row is FAILED.
C15_ErrorOnlyIfFailed ==
    \A r \in summary_processes : r.error # None => r.status = "FAILED"

\* C15: (SpecProcess) the error field is null after create_process; a step
\* gives it a new non-null value only if the step is an update_process call for
\* that meeting, and the value is then a non-empty string; every other step
\* keeps it, whatever status the row takes.
C15_ErrorOnlyFromUpdate ==
    [][/\ Called("create_process") =>
            ProcessRow(summary_processes', last'.key).error = None
       /\ \A new \in summary_processes' :
            new.error # None =>
              /\ Truthy(new.error)
              /\ \/ Called("update_process") /\ last'.key = new.meeting_id
                 \/ \E old \in summary_processes :
                      old.meeting_id = new.meeting_id /\ old.error = new.error]_vars

\* a row that failed with an error was afterwards updated to COMPLETED and
\* still carries the error
C15_Witness ==
    /\ last.op = "update_process"
    /\ last.status = "COMPLETED"
    /\ last.prev_op = "update_process"
    /\ last.prev_key = last.key
    /\ \E r \in summary_processes :
         r.meeting_id = last.key /\ r.status = "COMPLETED" /\ r.error = Str("boom")

\* C16: (SpecProcess) create_process(M) returns M.  When M already has a row
\* the call keeps its created_at and sets updated_at and start_time to the time
\* of the call; when M has no row the new row has created_at = updated_at =
\* start_time = the time of the call.
C16_RestartKeepsCreatedAt ==
    [][Called("create_process") =>
         LET m == last'.key
             new == ProcessRow(summary_processes', m)
         IN /\ last'.ret = Str(m)
            /\ ProcessRows(summary_processes', m) # {}
            /\ new.updated_at = Str(clock)
            /\ new.start_time = Str(clock)
            /\ new.created_at =
                 IF ProcessRows(summary_processes, m) # {}
                 THEN ProcessRow(summary_processes, m).created_at
                 ELSE Str(clock)]_vars

\* a process was restarted: its row is older than its start
C16_Witness ==
    /\ last.op = "create_process"
    /\ \E r \in summary_processes :
         /\ r.meeting_id = last.key
         /\ r.created_at # r.start_time
         /\ r.start_time = Str(last.now)
         /\ r.updated_at = r.start_time

-----------------------------------------------------------------------------
(* Properties of the transcript buffer *)

RECURSIVE Concat(_)
\* t1 ++ ... ++ tn
Concat(texts) == IF Len(texts) = 0 THEN "" ELSE Head(texts) \o Concat(Tail(texts))

ChunkRows(m) == {r \in transcript_chunks : r.meeting_id = m}

Orders(texts) ==
    LET n == Len(texts)
        perms == {f \in [1..n -> 1..n] : \A i, j \in 1..n : f[i] = f[j] => i = j}
    IN {[i \in 1..n |-> texts[f[i]]] : f \in perms}

\* C4: (SpecConcurrent) whatever the interleaving of concurrent save_transcript
\* calls, once no call is in progress the stored text of a meeting holds the
\* text of every completed call exactly once: it is their concatenation in some
\* order.
C4_NoChunkLost ==
    NoTasks =>
       \A m \in Meetings :
          appended[m] # <<>> =>
             \E r \in ChunkRows(m) :
                \E o \in Orders(appended[m]) : r.transcript_text = Str(Concat(o))

\* C9: (SpecTranscript) get_transcript_data(M) returns a record iff M has both
\* a transcript_chunks row and a summary_processes row, and changes no table.
C9_InnerJoin ==
    /\ [](last.op = "get_transcript_data" =>
            ((last.ret # None) <=>
                (ChunkRows(last.key) # {}
                 /\ ProcessRows(summary_processes, last.key) # {})))
    /\ [][Called("get_transcript_data") => UNCHANGED tables]_vars

\* Scenario A: M has saved transcript text and no process row, and
\* get_transcript_data(M) has returned None
C9_Witness ==
    /\ last.op = "get_transcript_data"
    /\ last.ret = None
    /\ \E r \in ChunkRows(last.key) : r.transcript_text = Str("a")
    /\ ProcessRows(summary_processes, last.key) = {}

-----------------------------------------------------------------------------
(* Properties of the settings row, under SpecSettings *)

\* C5: the settings table holds exactly one row, and its id is "1".
C5_SettingsSingleton ==
    /\ Cardinality(settings) = 1
    /\ \A r \in settings : r.id = "1"

\* delete_api_key has run on a row that save_model_config had rewritten
C5_Witness ==
    /\ last.op = "delete_api_key"
    /\ last.connected
    /\ \E r \in settings : r.provider = "ollama"

\* C6: _init_db run when a settings row with id "1" exists changes no field
\* of it; the defaults are what the first run wrote into the empty table.
C6_BootstrapKeepsRow ==
    /\ [](clock = 0 =>
            settings = {SettingsRow("1", "openai", "gpt-4o-mini", "whisper-1")})
    /\ [][(Called("_init_db") /\ \E r \in settings : r.id = "1")
            => settings' = settings]_vars

\* _init_db has run again on a row whose configuration and keys are not the defaults
C6_Witness ==
    /\ last.op = "_init_db"
    /\ \E r \in settings : r.provider = "ollama" /\ r.openaiApiKey # None

ApiKeyOps == {"save_api_key", "get_api_key", "delete_api_key"}

\* C7: save_api_key, get_api_key and delete_api_key with a provider outside
\* the allow-list raise ValueError before a connection is opened, and leave
\* every table as it was.
C7_UnknownProviderRejected ==
    [][(\E op \in ApiKeyOps : Called(op)) /\ last'.key \notin provider_list
         => /\ last'.ret = ValueError
            /\ ~last'.connected
            /\ UNCHANGED tables]_vars

\* save_api_key(k, "azure") has been rejected while a key was stored
C7_Witness ==
    /\ last.op = "save_api_key"
    /\ last.key = "azure"
    /\ last.ret = ValueError
    /\ \E r \in settings : r.ollamaApiKey # None

\* C8: after save_api_key(k, p) a get_api_key(p) returns k, for every key
\* value k; after delete_api_key(p) it returns None and the row is still there.
C8_KeyRoundTrip ==
    /\ (last.op = "save_api_key" /\ last.key \in provider_list) =>
          get_api_key(settings, last.key) = last.arg
    /\ (last.op = "delete_api_key" /\ last.key \in provider_list) =>
          /\ get_api_key(settings, last.key) = None
          /\ \E r \in settings : r.id = "1"

\* C8 as amended: the same for every key k but the empty string, after which
\* get_api_key(p) returns None.
C8_NonEmptyKeyRoundTrip ==
    /\ (last.op = "save_api_key" /\ last.key \in provider_list) =>
          get_api_key(settings, last.key) = (IF last.arg = Str("") THEN None ELSE last.arg)
    /\ (last.op = "delete_api_key" /\ last.key \in provider_list) =>
          /\ get_api_key(settings, last.key) = None
          /\ \E r \in settings : r.id = "1"

\* delete_api_key(p) has run straight after save_api_key(k, p)
C8_Witness ==
    /\ last.op = "delete_api_key"
    /\ last.prev_op = "save_api_key"
    /\ last.prev_key = last.key
    /\ last.key = "claude"

\* the environment variable behind each key column that is synchronised
EnvOf == [openaiApiKey |-> "OPENAI_API_KEY", anthropicApiKey |-> "ANTHROPIC_API_KEY",
          groqApiKey |-> "GROQ_API_KEY"]

\* C19: (SpecSettings) after sync_env_vars_to_db, for each of openai, anthropic
\* and groq the stored key equals the environment variable when the variable is
\* present (set to a non-empty value) and equals the previously stored key
\* when it is absent; the ollama key, provider, model and whisperModel are
\* unchanged; and running it again under the same environment changes nothing.
C19_EnvSync ==
    [][Called("sync_env_vars_to_db") =>
         /\ Cardinality(settings') = Cardinality(settings)
         /\ \A old \in settings : \E new \in settings' :
              /\ new.id = old.id
              /\ \A column \in DOMAIN EnvOf :
                   new[column] = IF environ[EnvOf[column]] \notin {None, Str("")}
                                 THEN environ[EnvOf[column]]
                                 ELSE old[column]
              /\ new.ollamaApiKey = old.ollamaApiKey
              /\ new.provider = old.provider
              /\ new.model = old.model
              /\ new.whisperModel = old.whisperModel
         /\ sync_env_vars_to_db(settings', environ) = settings']_vars

\* a synchronisation replaced the stored openai key by the environment's and
\* kept the stored groq key, whose variable is unset
C19_Witness ==
    /\ last.op = "sync_env_vars_to_db"
    /\ last.prev_op = "save_api_key"
    /\ environ["OPENAI_API_KEY"] = Str("sk-1")
    /\ environ["GROQ_API_KEY"] = None
    /\ \E r \in settings : r.openaiApiKey = Str("sk-1") /\ r.groqApiKey = Str("sk-2")

\* the key column of each allowed provider
ColumnOf == [openai |-> "openaiApiKey", claude |-> "anthropicApiKey",
             groq |-> "groqApiKey", ollama |-> "ollamaApiKey"]
SettingsColumns ==
    {"id", "provider", "model", "whisperModel", "groqApiKey", "openaiApiKey",
     "anthropicApiKey", "ollamaApiKey"}

\* C20: (SpecSettings) save_api_key(k, p) and delete_api_key(p), for an allowed
\* provider p, set the key column of p (to k, to NULL) and leave the other
\* three key columns, provider, model and whisperModel unchanged.
C20_OneKeyColumn ==
    [][((Called("save_api_key") \/ Called("delete_api_key"))
          /\ last'.key \in DOMAIN ColumnOf) =>
         LET column == ColumnOf[last'.key]
             value == IF last'.op = "save_api_key" THEN last'.arg ELSE None
         IN /\ Cardinality(settings') = Cardinality(settings)
            /\ \A old \in settings : \E new \in settings' :
                 /\ new[column] = value
                 /\ \A c \in SettingsColumns \ {column} : new[c] = old[c]]_vars

\* the claude key was deleted while the keys of openai and groq stay stored
C20_Witness ==
    /\ last.op = "delete_api_key"
    /\ last.key = "claude"
    /\ \E r \in settings :
         /\ r.anthropicApiKey = None
         /\ r.openaiApiKey # None
         /\ r.groqApiKey # None

KeyColumns == {"openaiApiKey", "anthropicApiKey", "groqApiKey", "ollamaApiKey"}

\* C21: (SpecSettings) after save_model_config(p, m, w), get_model_config()
\* returns exactly provider p, model m and whisperModel w, asked at once or by
\* the next call, and the four API key columns hold what they held before.
C21_ModelConfigRoundTrip ==
    [][/\ Called("save_model_config") =>
            \E cfg \in ModelConfigs :
               /\ cfg[1] = last'.key /\ Str(cfg[2]) = last'.arg
               /\ get_model_config(settings') =
                    [t |-> "config", provider |-> cfg[1], model |-> cfg[2],
                     whisperModel |-> cfg[3]]
               /\ Cardinality(settings') = Cardinality(settings)
               /\ \A old \in settings : \E new \in settings' :
                    \A c \in KeyColumns : new[c] = old[c]
       /\ (Called("get_model_config") /\ last.op = "save_model_config") =>
            \E cfg \in ModelConfigs :
               /\ cfg[1] = last.key /\ Str(cfg[2]) = last.arg
               /\ last'.ret = [t |-> "config", provider |-> cfg[1], model |-> cfg[2],
                               whisperModel |-> cfg[3]]]_vars

\* the configuration was changed from the default while a key is stored, and
\* read back
C21_Witness ==
    /\ last.op = "get_model_config"
    /\ last.prev_op = "save_model_config"
    /\ last.ret = [t |-> "config", provider |-> "ollama", model |-> "llama3",
                   whisperModel |-> "large-v3"]
    /\ \E r \in settings : r.openaiApiKey = Str("sk-1")

-----------------------------------------------------------------------------
(* Properties of the meeting registry, under SpecMeetings *)

C12_UniqueIdAndTitle ==
    \A r1, r2 \in meetings : (r1.id = r2.id \/ r1.title = r2.title) => r1 = r2

\* C17: (SpecMeetings) update_meeting_name(M, n) sets the title of meeting M
\* and the meeting_name of M's buffer row to n, and a save_transcript(M, ...)
\* call leaves the meeting_name of an existing buffer row as it was.
C17_NameSurvivesSave ==
    [][/\ Called("update_meeting_name") =>
            /\ \A r \in meetings' : r.id = last'.key => r.title = last'.arg.v
            /\ \A r \in transcript_chunks' :
                 r.meeting_id = last'.key => r.meeting_name = last'.arg
       /\ Called("save_transcript") =>
            \A old \in transcript_chunks, new \in transcript_chunks' :
               (old.meeting_id = last'.key /\ new.meeting_id = last'.key) =>
                  new.meeting_name = old.meeting_name]_vars

\* the rows of meeting m in the four tables delete_meeting writes
RowsOf(db, m) ==
    [meetings |-> {r \in db.meetings : r.id = m},
     transcripts |-> {r \in db.transcripts : r.meeting_id = m},
     transcript_chunks |-> {r \in db.transcript_chunks : r.meeting_id = m},
     summary_processes |-> {r \in db.summary_processes : r.meeting_id = m}]

\* C18: (SpecMeetings) delete_meeting(M) is all-or-nothing.  It returns True
\* and then no row of M remains in meetings, transcripts, transcript_chunks or
\* summary_processes, so that get_meeting(M) and get_transcript_data(M) return
\* None; or, when the storage engine fails, it returns False, does not raise,
\* and the four tables are as they were.
C18_DeleteAllOrNothing ==
    [][Called("delete_meeting") =>
         LET m == last'.key IN
         \/ /\ last'.ret = True
            /\ RowsOf(Db', m) = [meetings |-> {}, transcripts |-> {},
                                 transcript_chunks |-> {}, summary_processes |-> {}]
            /\ get_meeting(meetings', transcripts', m) = None
            /\ get_transcript_data(transcript_chunks', summary_processes', m) = None
         \/ /\ last'.arg # Str("none")
            /\ last'.ret = False
            /\ Db' = Db]_vars

-----------------------------------------------------------------------------
(* Properties of connection handling, under SpecConnections *)

\* C22: (SpecConnections) every operation releases the connection it acquired
\* on every way out, failure included: in every state in which no operation
\* is in progress, after successful and failing calls alike, no connection is
\* open.
C22_NoOpenConnections == NoTasks => connections = 0

-----------------------------------------------------------------------------
(* Properties of per-meeting isolation, under SpecIsolation *)

IsolatedOps ==
    {"create_process", "update_process", "save_transcript", "update_meeting_name",
     "update_meeting_title", "delete_meeting"}

\* the step is the write of a suspended save_transcript coroutine
Resumed == \E t \in TaskIds : tasks[t] # Idle /\ tasks'[t] = Idle

\* the step is a call, or the completion of a call, of one of IsolatedOps
IsolatedStep ==
    \/ Resumed
    \/ \E op \in IsolatedOps : Called(op)

\* the meeting that step operates on
Target ==
    IF Resumed
    THEN tasks[CHOOSE t \in TaskIds : tasks[t] # Idle /\ tasks'[t] = Idle].meeting_id
    ELSE last'.key

\* C23: (SpecIsolation) create_process, update_process, save_transcript,
\* update_meeting_name, update_meeting_title and delete_meeting called for a
\* meeting M, in any order and interleaved with operations on another meeting,
\* leave the rows of every other meeting in meetings, transcripts,
\* transcript_chunks and summary_processes exactly as they were.
C23_MeetingIsolation ==
    [][IsolatedStep =>
         \A other \in Meetings \ {Target} : RowsOf(Db', other) = RowsOf(Db, other)]_vars

\* meeting m1 was deleted while a save_transcript of m2 is suspended and m2
\* keeps its meeting row
C23_Witness ==
    /\ last.op = "delete_meeting"
    /\ last.key = "m1"
    /\ last.ret = True
    /\ last.prev_op = "save_meeting"
    /\ last.prev_key = "m1"
    /\ \E t \in TaskIds : tasks[t] # Idle /\ tasks[t].meeting_id = "m2"
    /\ \E r \in meetings : r.id = "m2"

====
